---- MODULE Spec2Model ----
(***************************************************************************)
(* The graph algorithms engine of the social network analyzer              *)
(* (class GraphAlgorithms): an engine is constructed over a list of users  *)
(* and a list of friendships, derives an adjacency list from them, and     *)
(* answers findShortestPath, findCommunities, findCommunitiesUnionFind and *)
(* findMutualFriends.                                                      *)
(*                                                                         *)
(* User ids are opaque strings in the source and are only ever compared    *)
(* with ===; they are modelled as the integers 1..NumIds.  A JavaScript    *)
(* Set is modelled as a sequence without repetitions, in insertion order   *)
(* (the order its iteration follows); a Map is a function on its key set.  *)
(*                                                                         *)
(* The engine is fed by the graph store (class GraphDataManager) and by    *)
(* the page that subscribes to it.  The store hands out its arrays by      *)
(* reference (getData() copies only the outer object), so the model keeps, *)
(* next to the content of every array, which array each holder holds.      *)
(***************************************************************************)
EXTENDS Integers, Sequences, FiniteSets, TLC

\* ------------------------------------------------------------------ bounds
\* Ids that may occur in the user list or as the endpoint of a friendship.
NumIds == 3
\* Longest friendship list that keeps the edge invariant.
MaxEdges == 3
\* Longest friendship list that breaks the edge invariant.
MaxBrokenEdges == 1
\* Calls made on the store by a caller that holds an engine.
MaxOps == 2
\* Friendships added or removed through the page.
MaxEdits == 1
\* Clock values that addUser may read, each one a new user id.
MaxNewIds == 2
\* Longest user list of an engine whose communities exhaust the palette.
MaxUsers == 9
\* Longest friendship list of such an engine.
MaxPairs == 1

Ids == 1..NumIds

\* ------------------------------------------------------------------- state
VARIABLES
    users,          \* this.users: the ids of the user list, in list order
    friendships,    \* this.friendships: records [source, target], in list order
    adjacencyList,  \* this.adjacencyList: user id -> neighbours in insertion order
    result,         \* the last call made and what it returned
    store           \* the module of the store, a record of the parts below

vars == <<users, friendships, adjacencyList, result, store>>

\* The arrays of the module constant initialData.
initialData == store.initialData
\* this.data of the store: the arrays it holds now.
data == store.data
\* this.listeners of the store.
listeners == store.listeners
\* Which array this.data and the engine hold, per field.
arrays == store.arrays
\* The last value Date.now() returned.
clock == store.clock
\* Calls made on the store so far.
ops == store.ops
\* What the engine answered before the last saved store call.
before == store.before

\* ----------------------------------------------------- JavaScript helpers
\* The value a Map lookup yields for a missing key.
Undefined == 0

\* The colour palette of both community methods.
colors ==
    <<"#FF6B6B", "#4ECDC4", "#45B7D1", "#96CEB4",
      "#FFEAA7", "#DDA0DD", "#98D8C8", "#F7DC6F">>

Range(s) == {s[i] : i \in DOMAIN s}

\* Set.prototype.has on an insertion-ordered set.
Has(set, x) == \E i \in DOMAIN set : set[i] = x

\* Set.prototype.add: a value already present keeps its place.
SetAdd(set, x) == IF Has(set, x) THEN set ELSE Append(set, x)

\* Map.prototype.has, get and set.
MapHas(m, k) == k \in DOMAIN m
MapGet(m, k) == IF k \in DOMAIN m THEN m[k] ELSE Undefined
MapSet(m, k, v) == [x \in (DOMAIN m) \cup {k} |-> IF x = k THEN v ELSE m[x]]

\* The empty Map.
EmptyMap == [x \in {} |-> Undefined]

\* ------------------------------------------------------ buildAdjacencyList
\* adj.get(a)?.add(b): a no-op when a is not a key.
AddNeighbor(adj, a, b) ==
    IF MapHas(adj, a) THEN MapSet(adj, a, SetAdd(adj[a], b)) ELSE adj

\* The mutant: the edge is entered in one direction only.
AddEdgeOneWay(adj, friendship) ==
    AddNeighbor(adj, friendship.source, friendship.target)

\* The mutant: the second line enters the target into its own set.
AddEdgeReverseSlip(adj, friendship) ==
    AddNeighbor(AddNeighbor(adj, friendship.source, friendship.target),
                friendship.target, friendship.target)

\* One friendship entered in both directions.
AddEdge(adj, friendship) ==
    AddNeighbor(AddNeighbor(adj, friendship.source, friendship.target),
                friendship.target, friendship.source)

RECURSIVE AddEdges(_, _, _)
AddEdges(adj, fs, i) ==
    IF i > Len(fs) THEN adj ELSE AddEdges(AddEdge(adj, fs[i]), fs, i + 1)

\* Every user gets an empty neighbour set, then the friendships are entered.
buildAdjacencyList(us, fs) ==
    AddEdges([id \in Range(us) |-> <<>>], fs, 1)

\* this.adjacencyList.get(id) || new Set()
Neighbors(id) ==
    IF MapHas(adjacencyList, id) THEN adjacencyList[id] ELSE <<>>

\* -------------------------------------------------------- findShortestPath
NotFound == [kind |-> "null"]

\* The mutant: distance is the number of nodes, not of edges.
PathResultNodeCount(path) ==
    [kind |-> "path", path |-> path, distance |-> Len(path)]

\* { path, distance: path.length - 1 }
PathResult(path) ==
    [kind |-> "path", path |-> path, distance |-> Len(path) - 1]

\* while (node) { path.unshift(node); node = parent.get(node)!; }
RECURSIVE Reconstruct(_, _, _)
Reconstruct(parent, node, path) ==
    IF node = Undefined
    THEN path
    ELSE Reconstruct(parent, MapGet(parent, node), <<node>> \o path)

\* The mutant: a discovered node is not put on the queue.
EnqueueDropped(queue, neighbor) == queue

\* queue.push(neighbor)
Enqueue(queue, neighbor) == Append(queue, neighbor)

RECURSIVE BfsLoop(_, _, _, _)
RECURSIVE BfsNeighbors(_, _, _, _, _, _, _)

\* for (const neighbor of neighbors) { ... } of one dequeued node
BfsNeighbors(neighbors, i, current, queue, visited, parent, endId) ==
    IF i > Len(neighbors)
    THEN BfsLoop(queue, visited, parent, endId)
    ELSE LET neighbor == neighbors[i] IN
         IF neighbor \notin visited
         THEN LET parent2 == MapSet(parent, neighbor, current) IN
              IF neighbor = endId
              THEN PathResult(Reconstruct(parent2, endId, <<>>))
              ELSE BfsNeighbors(neighbors, i + 1, current,
                                Enqueue(queue, neighbor),
                                visited \cup {neighbor}, parent2, endId)
         ELSE BfsNeighbors(neighbors, i + 1, current, queue, visited,
                           parent, endId)

\* while (queue.length > 0) { const current = queue.shift()!; ... }
BfsLoop(queue, visited, parent, endId) ==
    IF queue = <<>>
    THEN NotFound
    ELSE BfsNeighbors(Neighbors(Head(queue)), 1, Head(queue), Tail(queue),
                      visited, parent, endId)

\* The mutant: the startId === endId case is not singled out.
findShortestPathNoIdentity(startId, endId) ==
    BfsLoop(<<startId>>, {startId}, EmptyMap, endId)

findShortestPath(startId, endId) ==
    IF startId = endId
    THEN [kind |-> "path", path |-> <<startId>>, distance |-> 0]
    ELSE BfsLoop(<<startId>>, {startId}, EmptyMap, endId)

\* ---------------------------------------------------------- findCommunities
\* The mutant: past the end of the palette the last colour is kept.
CommunityNoWrap(communityId, members) ==
    [id |-> communityId, users |-> members,
     color |-> colors[(IF communityId < Len(colors) THEN communityId
                       ELSE Len(colors) - 1) + 1]]

\* { id, users, color: colors[communityId % colors.length] }
Community(communityId, members) ==
    [id |-> communityId, users |-> members,
     color |-> colors[(communityId % Len(colors)) + 1]]

\* The mutant: the neighbours of a visited node are not pushed.
PushNeighborsNone(stack, neighbors, visited) == stack

\* for (const neighbor of neighbors) if (!visited.has(neighbor)) stack.push(neighbor)
PushNeighbors(stack, neighbors, visited) ==
    stack \o SelectSeq(neighbors, LAMBDA n : n \notin visited)

\* dfsVisit: the loop over the stack; yields the community and the visited set.
RECURSIVE DfsLoop(_, _, _)
DfsLoop(stack, visited, community) ==
    IF stack = <<>>
    THEN [community |-> community, visited |-> visited]
    ELSE LET current == stack[Len(stack)]
             rest == SubSeq(stack, 1, Len(stack) - 1)
         IN  IF current \notin visited
             THEN DfsLoop(PushNeighbors(rest, Neighbors(current),
                                        visited \cup {current}),
                          visited \cup {current},
                          Append(community, current))
             ELSE DfsLoop(rest, visited, community)

dfsVisit(userId, visited) == DfsLoop(<<userId>>, visited, <<>>)

\* for (const user of this.users) { if (!visited.has(user.id)) ... }
RECURSIVE CommunitiesLoop(_, _, _, _)
CommunitiesLoop(i, visited, communities, communityId) ==
    IF i > Len(users)
    THEN communities
    ELSE IF users[i] \notin visited
         THEN LET r == dfsVisit(users[i], visited) IN
              IF Len(r.community) > 0
              THEN CommunitiesLoop(i + 1, r.visited,
                       Append(communities,
                              Community(communityId, r.community)),
                       communityId + 1)
              ELSE CommunitiesLoop(i + 1, r.visited, communities,
                                   communityId)
         ELSE CommunitiesLoop(i + 1, visited, communities, communityId)

findCommunities == CommunitiesLoop(1, {}, <<>>, 0)

\* ------------------------------------------------- findCommunitiesUnionFind
\* rank.get of a missing key is undefined and undefined + 1 is NaN; both
\* make every < and > false and stay NaN under + 1, so one value stands
\* for the two.
NaN == -1

RankGet(rank, k) == IF k \in DOMAIN rank THEN rank[k] ELSE NaN
RankLess(a, b) == a # NaN /\ b # NaN /\ a < b
RankPlusOne(a) == IF a = NaN THEN NaN ELSE a + 1

\* find with path compression; yields the root and the updated parent map.
RECURSIVE find(_, _)
find(parent, x) ==
    IF MapGet(parent, x) # x
    THEN LET r == find(parent, MapGet(parent, x))
             parent2 == MapSet(r.parent, x, r.root)
         IN  [parent |-> parent2, root |-> MapGet(parent2, x)]
    ELSE [parent |-> parent, root |-> MapGet(parent, x)]

\* The mutant: roots of equal rank are not linked.
LinkRootsTieDropped(parent, rank, rootX, rootY) ==
    LET rankX == RankGet(rank, rootX)
        rankY == RankGet(rank, rootY)
    IN  IF RankLess(rankX, rankY)
        THEN [parent |-> MapSet(parent, rootX, rootY), rank |-> rank]
        ELSE IF RankLess(rankY, rankX)
             THEN [parent |-> MapSet(parent, rootY, rootX), rank |-> rank]
             ELSE [parent |-> parent,
                   rank |-> MapSet(rank, rootX, RankPlusOne(rankX))]

\* The body of if (rootX !== rootY) { ... }: union by rank.
LinkRoots(parent, rank, rootX, rootY) ==
    LET rankX == RankGet(rank, rootX)
        rankY == RankGet(rank, rootY)
    IN  IF RankLess(rankX, rankY)
        THEN [parent |-> MapSet(parent, rootX, rootY), rank |-> rank]
        ELSE IF RankLess(rankY, rankX)
             THEN [parent |-> MapSet(parent, rootY, rootX), rank |-> rank]
             ELSE [parent |-> MapSet(parent, rootY, rootX),
                   rank |-> MapSet(rank, rootX, RankPlusOne(rankX))]

union(parent, rank, x, y) ==
    LET fx == find(parent, x)
        fy == find(fx.parent, y)
    IN  IF fx.root # fy.root
        THEN LinkRoots(fy.parent, rank, fx.root, fy.root)
        ELSE [parent |-> fy.parent, rank |-> rank]

\* this.friendships.forEach(friendship => union(source, target))
RECURSIVE UnionAll(_, _, _)
UnionAll(parent, rank, i) ==
    IF i > Len(friendships)
    THEN parent
    ELSE LET u == union(parent, rank, friendships[i].source,
                        friendships[i].target)
         IN  UnionAll(u.parent, u.rank, i + 1)

\* groups.get(root)!.push(id) on the Map kept as a list of [root, users]
\* in the order the roots were first seen.
GroupPush(groups, root, id) ==
    IF \E g \in DOMAIN groups : groups[g].root = root
    THEN [g \in DOMAIN groups |->
             IF groups[g].root = root
             THEN [root |-> root, users |-> Append(groups[g].users, id)]
             ELSE groups[g]]
    ELSE Append(groups, [root |-> root, users |-> <<id>>])

\* this.users.forEach(user => { const root = find(user.id); ... })
RECURSIVE GroupUsers(_, _, _)
GroupUsers(parent, groups, i) ==
    IF i > Len(users)
    THEN groups
    ELSE LET f == find(parent, users[i])
         IN  GroupUsers(f.parent, GroupPush(groups, f.root, users[i]), i + 1)

\* groups.forEach(userIds => { communities.push(...); communityId++; })
RECURSIVE GroupsToCommunities(_, _, _)
GroupsToCommunities(groups, communities, communityId) ==
    IF communityId >= Len(groups)
    THEN communities
    ELSE GroupsToCommunities(groups,
             Append(communities,
                    Community(communityId, groups[communityId + 1].users)),
             communityId + 1)

findCommunitiesUnionFind ==
    LET parent0 == [id \in Range(users) |-> id]
        rank0 == [id \in Range(users) |-> 0]
    IN  GroupsToCommunities(
            GroupUsers(UnionAll(parent0, rank0, 1), <<>>, 1), <<>>, 0)

\* -------------------------------------------------------- findMutualFriends
\* The mutant: only the user itself is skipped, existing friends are not.
SkipSelfOnly(userId, userFriends, id) == id = userId

\* if (user.id === userId || userFriends.has(user.id)) continue;
SkipCandidate(userId, userFriends, id) ==
    id = userId \/ Has(userFriends, id)

\* The mutant: every friend of the candidate counts as shared.
MutualFriendsUnfiltered(userFriends, otherFriends) == otherFriends

\* Array.from(userFriends).filter(friend => otherFriends.has(friend))
MutualFriends(userFriends, otherFriends) ==
    SelectSeq(userFriends, LAMBDA friend : Has(otherFriends, friend))

\* The mutant: a candidate needs two shared friends to be suggested.
KeepSuggestionAboveOne(mutualFriends) == Len(mutualFriends) > 1

\* if (mutualFriends.length > 0)
KeepSuggestion(mutualFriends) == Len(mutualFriends) > 0

RECURSIVE SuggestionsLoop(_, _, _, _)
SuggestionsLoop(userId, userFriends, i, suggestions) ==
    IF i > Len(users)
    THEN suggestions
    ELSE IF SkipCandidate(userId, userFriends, users[i])
         THEN SuggestionsLoop(userId, userFriends, i + 1, suggestions)
         ELSE LET mutualFriends ==
                      MutualFriends(userFriends, Neighbors(users[i]))
              IN  IF KeepSuggestion(mutualFriends)
                  THEN SuggestionsLoop(userId, userFriends, i + 1,
                           Append(suggestions,
                                  [userId |-> users[i],
                                   mutualCount |-> Len(mutualFriends),
                                   mutualFriends |-> mutualFriends]))
                  ELSE SuggestionsLoop(userId, userFriends, i + 1,
                                       suggestions)

\* The mutant: the element goes in front of the elements equal to it.
SortedInsertBeforeEqual(sorted, s) ==
    LET k == Cardinality({j \in DOMAIN sorted :
                             sorted[j].mutualCount > s.mutualCount})
    IN  SubSeq(sorted, 1, k) \o <<s>> \o SubSeq(sorted, k + 1, Len(sorted))

\* One element entered into a list already sorted by mutualCount,
\* descending, behind the elements that do not compare after it.
SortedInsert(sorted, s) ==
    LET k == Cardinality({j \in DOMAIN sorted :
                             sorted[j].mutualCount >= s.mutualCount})
    IN  SubSeq(sorted, 1, k) \o <<s>> \o SubSeq(sorted, k + 1, Len(sorted))

\* suggestions.sort((a, b) => b.mutualCount - a.mutualCount): Array.prototype
\* .sort is stable, so equal counts keep their order.
RECURSIVE SortByMutualCount(_, _, _)
SortByMutualCount(suggestions, i, sorted) ==
    IF i > Len(suggestions)
    THEN sorted
    ELSE SortByMutualCount(suggestions, i + 1,
                           SortedInsert(sorted, suggestions[i]))

findMutualFriends(userId) ==
    SortByMutualCount(
        SuggestionsLoop(userId, Neighbors(userId), 1, <<>>), 1, <<>>)

\* ------------------------------------------------------------ constructor
\* The node set of the snapshot.
Nodes == Range(users)

\* The edge invariant of the data model on a user list and a friendship
\* list: no self-loop, both endpoints users, no unordered pair twice.
SelfLoop(f) == f.source = f.target
Dangling(us, f) == f.source \notin Range(us) \/ f.target \notin Range(us)
SamePair(f, g) ==
    \/ f.source = g.source /\ f.target = g.target
    \/ f.source = g.target /\ f.target = g.source
Duplicated(fs) ==
    \E i, j \in DOMAIN fs : i < j /\ SamePair(fs[i], fs[j])
EdgeInvariant(us, fs) ==
    /\ \A i \in DOMAIN fs : ~SelfLoop(fs[i]) /\ ~Dangling(us, fs[i])
    /\ ~Duplicated(fs)

\* Sequences over S of length at most n.
SeqsUpTo(S, n) == UNION {[1..k -> S] : k \in 0..n}

\* User lists.  The engine compares ids for equality only, so the users
\* are named by their place in the list; the ids above Len(users) are the
\* ids that are no user.
UserLists == {[i \in 1..n |-> i] : n \in 0..NumIds}

\* Friendship lists: any endpoints and any order, so self-loops, repeated
\* pairs and endpoints that are no user all occur.
FriendshipLists(us) ==
    {fs \in SeqsUpTo([source : Ids, target : Ids], MaxEdges) :
        EdgeInvariant(us, fs) \/ Len(fs) <= MaxBrokenEdges}

\* ------------------------------------------------------------------- store
\* (class GraphDataManager and the module constant initialData)

\* initialData: the sample users and friendships.  The ids '1'..'6' are the
\* numbers 1..6.
SampleUsers ==
    <<[id |-> 1, name |-> "Alice"], [id |-> 2, name |-> "Bob"],
      [id |-> 3, name |-> "Charlie"], [id |-> 4, name |-> "Diana"],
      [id |-> 5, name |-> "Eve"], [id |-> 6, name |-> "Frank"]>>

SampleFriendships ==
    <<[source |-> 1, target |-> 2], [source |-> 2, target |-> 3],
      [source |-> 3, target |-> 4], [source |-> 1, target |-> 5],
      [source |-> 5, target |-> 6]>>

SampleData == [users |-> SampleUsers, friendships |-> SampleFriendships]

\* The ids of a user array, in array order: all the engine reads of a user.
UserIds(us) == [i \in DOMAIN us |-> us[i].id]

SampleIds == Range(UserIds(SampleUsers))

\* Date.now() is far above the sample ids; its values are the numbers that
\* follow them.  Two calls may read the same value.
Clock == (Len(SampleUsers) + 1)..(Len(SampleUsers) + MaxNewIds)

\* Ids passed to the store: the sample ids and the ids addUser makes.
StoreIds == SampleIds \cup Clock

\* Names passed to addUser and updateUser.
Names == {"Zed"}

\* An array is one of: the array of initialData ("initialData"), an array
\* made for the store that this.data holds now ("store"), an array that only
\* the engine still holds ("engine").  One value per field of GraphData.
BothFields(array) == [users |-> array, friendships |-> array]

\* loadData(): the stored text parsed into arrays of its own or, with
\* nothing stored, { ...initialData }, which holds initialData's own arrays.
\* stored is the empty sequence, or holds the one stored value.
loadData(stored) ==
    IF Len(stored) = 0
    THEN [value |-> SampleData, array |-> "initialData"]
    ELSE [value |-> stored[1], array |-> "store"]

\* The store after its constructor, with the given subscribers, and an
\* engine built from getData(): it holds the arrays this.data holds.
StoreLoaded(stored, subscribers) ==
    [initialData |-> SampleData,
     data |-> loadData(stored).value,
     listeners |-> subscribers,
     arrays |-> [data |-> BothFields(loadData(stored).array),
                 engine |-> BothFields(loadData(stored).array)],
     clock |-> Len(SampleUsers) + 1,
     ops |-> 0,
     before |-> [asked |-> FALSE]]

\* An engine used without the store: the module of the store is not
\* loaded, so there is no initialData, no this.data and no clock to read.
NoStore == [loaded |-> FALSE]

\* What a store method does to one field of this.data: the content of the
\* array the field holds afterwards, which array that is, and whether the
\* field was pointed at another array (moved) or its array changed in place.
InPlace(field, value) ==
    [value |-> value, array |-> arrays.data[field], moved |-> FALSE]

\* The mutant: the array is left holding the pushed value alone.
PushedAlone(field, value) == InPlace(field, <<value>>)

\* Array.prototype.push on the array of a field.
Pushed(field, value) == InPlace(field, Append(data[field], value))

Kept(field) == InPlace(field, data[field])

\* this.data.friendships = this.data.friendships.filter(...): a new array.
Filtered(value) == [value |-> value, array |-> "store", moved |-> TRUE]

\* this.data = { ...initialData }: the field holds initialData's array.
Restored(field) ==
    [value |-> initialData[field], array |-> "initialData",
     moved |-> arrays.data[field] # "initialData"]

\* The content of initialData's array after the effect e on this.data.
InitialAfter(field, e) ==
    IF ~e.moved /\ e.array = "initialData" THEN e.value
    ELSE initialData[field]

\* The array the engine holds after the effect e: the same array as before,
\* which only the engine holds once this.data has let go of it.
EngineArray(field, e) ==
    IF e.moved /\ arrays.engine[field] = "store" THEN "engine"
    ELSE arrays.engine[field]

\* The content of the engine's array after the effect e; old is its content
\* before.
EngineSees(field, e, old) ==
    CASE EngineArray(field, e) = "initialData" -> InitialAfter(field, e)
      [] EngineArray(field, e) = "store" -> e.value
      [] OTHER -> old

\* new GraphAlgorithms(d.users, d.friendships) for d the arrays this.data
\* holds after the effects us and fs: the fields are those arrays, the
\* adjacency list is built from their content.
EngineBuilt(us, fs) ==
    /\ users' = UserIds(us.value)
    /\ friendships' = fs.value
    /\ adjacencyList' = buildAdjacencyList(UserIds(us.value), fs.value)

\* The arrays held once that engine is built.
ArraysBuilt(us, fs) ==
    [data |-> [users |-> us.array, friendships |-> fs.array],
     engine |-> [users |-> us.array, friendships |-> fs.array]]

\* An engine built earlier: its fields are the same arrays as before and
\* show what the store did to them; its adjacency list is as built.
EngineKept(us, fs) ==
    /\ users' = IF EngineArray("users", us) = "engine" THEN users
                ELSE UserIds(EngineSees("users", us, <<>>))
    /\ friendships' = EngineSees("friendships", fs, friendships)
    /\ UNCHANGED adjacencyList

\* The arrays held when the engine is kept.
ArraysKept(us, fs) ==
    [data |-> [users |-> us.array, friendships |-> fs.array],
     engine |-> [users |-> EngineArray("users", us),
                 friendships |-> EngineArray("friendships", fs)]]

\* Every answer of the engine as it is now: of the two community methods,
\* and of findShortestPath and findMutualFriends on the users of its list.
Answers ==
    [asked |-> TRUE,
     nodes |-> Nodes,
     findCommunities |-> findCommunities,
     findCommunitiesUnionFind |-> findCommunitiesUnionFind,
     findShortestPath |->
         [pair \in Nodes \X Nodes |-> findShortestPath(pair[1], pair[2])],
     findMutualFriends |-> [userId \in Nodes |-> findMutualFriends(userId)]]

\* One call of a store method that returns value, with the effects us and
\* fs on the two fields of this.data, Date.now() standing at now afterwards.
\* saved: the method reached saveData(), which writes a copy to
\* localStorage (read by no method here) and calls the listeners; the
\* page's listener loadData builds a new engine from getData().
StoreCall(op, value, us, fs, saved, now) ==
    LET reload == saved /\ Len(listeners) > 0 IN
    /\ store' = [initialData |->
                     [users |-> InitialAfter("users", us),
                      friendships |-> InitialAfter("friendships", fs)],
                 data |-> [users |-> us.value, friendships |-> fs.value],
                 listeners |-> listeners,
                 arrays |-> IF reload THEN ArraysBuilt(us, fs)
                            ELSE ArraysKept(us, fs),
                 clock |-> now,
                 ops |-> ops + 1,
                 before |-> IF saved THEN Answers ELSE before]
    /\ result' = [op |-> op, value |-> value]
    /\ IF reload THEN EngineBuilt(us, fs) ELSE EngineKept(us, fs)

\* users.findIndex(u => u.id === userId): the first place, -1 for none.
FindIndex(us, userId) ==
    IF \E i \in DOMAIN us : us[i].id = userId
    THEN CHOOSE i \in DOMAIN us :
             /\ us[i].id = userId
             /\ \A j \in 1..(i - 1) : us[j].id # userId
    ELSE -1

\* users.splice(userIndex, 1).
Splice(us, userIndex) ==
    SubSeq(us, 1, userIndex - 1) \o SubSeq(us, userIndex + 1, Len(us))

\* friendships.filter(f => f.source !== userId && f.target !== userId).
WithoutUser(fs, userId) ==
    LET keep(f) == f.source # userId /\ f.target # userId
    IN  SelectSeq(fs, keep)

\* friendships.filter(f => !(f joins sourceId and targetId)).
WithoutPair(fs, sourceId, targetId) ==
    LET keep(f) == ~SamePair(f, [source |-> sourceId, target |-> targetId])
    IN  SelectSeq(fs, keep)

\* users.some(u => u.id === id).
UserExists(id) == \E i \in DOMAIN data.users : data.users[i].id = id

\* addUser(name), Date.now() returning now.
AddUser(name, now) ==
    /\ now >= clock
    /\ StoreCall("addUser", [id |-> now, name |-> name],
                 Pushed("users", [id |-> now, name |-> name]),
                 Kept("friendships"), TRUE, now)

\* removeUser(userId).
RemoveUser(userId) ==
    LET userIndex == FindIndex(data.users, userId) IN
    /\ IF userIndex = -1
       THEN StoreCall("removeUser", FALSE,
                      Kept("users"), Kept("friendships"), FALSE, clock)
       ELSE StoreCall("removeUser", TRUE,
                      InPlace("users", Splice(data.users, userIndex)),
                      Filtered(WithoutUser(data.friendships, userId)),
                      TRUE, clock)

\* updateUser(userId, name): writes the name of the first user found.
UpdateUser(userId, name) ==
    LET userIndex == FindIndex(data.users, userId) IN
    /\ IF userIndex = -1
       THEN StoreCall("updateUser", FALSE,
                      Kept("users"), Kept("friendships"), FALSE, clock)
       ELSE StoreCall("updateUser", TRUE,
                      InPlace("users", [data.users EXCEPT
                                            ![userIndex].name = name]),
                      Kept("friendships"), TRUE, clock)

\* addFriendship(sourceId, targetId).
AddFriendship(sourceId, targetId) ==
    LET friendship == [source |-> sourceId, target |-> targetId]
        exists == \E i \in DOMAIN data.friendships :
                      SamePair(data.friendships[i], friendship)
    IN
    /\ IF \/ ~UserExists(sourceId)
          \/ ~UserExists(targetId)
          \/ sourceId = targetId
          \/ exists
       THEN StoreCall("addFriendship", FALSE,
                      Kept("users"), Kept("friendships"), FALSE, clock)
       ELSE StoreCall("addFriendship", TRUE,
                      Kept("users"), Pushed("friendships", friendship),
                      TRUE, clock)

\* removeFriendship(sourceId, targetId): the filtered array replaces the
\* old one whether or not it is shorter.
RemoveFriendship(sourceId, targetId) ==
    LET kept == WithoutPair(data.friendships, sourceId, targetId)
        removed == Len(kept) < Len(data.friendships)
    IN
    /\ StoreCall("removeFriendship", removed,
                 Kept("users"), Filtered(kept), removed, clock)

\* reset().
Reset ==
    /\ StoreCall("reset", TRUE,
                 Restored("users"), Restored("friendships"), TRUE, clock)

\* const d = getData(); new GraphAlgorithms(d.users, d.friendships): d is a
\* copy of the outer object only, so the engine holds the store's arrays.
Construct ==
    /\ EngineBuilt(Kept("users"), Kept("friendships"))
    /\ store' = [store EXCEPT
                     !.arrays = ArraysBuilt(Kept("users"),
                                            Kept("friendships"))]
    /\ result' = [op |-> "constructor", value |-> [kind |-> "engine"]]

\* new GraphAlgorithms(users, friendships) on arrays of the caller's own: no
\* input is rejected.
Init ==
    /\ users \in UserLists
    /\ friendships \in FriendshipLists(users)
    /\ adjacencyList = buildAdjacencyList(users, friendships)
    /\ result = [op |-> "constructor", value |-> [kind |-> "engine"]]
    /\ store = NoStore

\* ----------------------------------------------------------------- queries
FindShortestPath(startId, endId) ==
    /\ result' = [op |-> "findShortestPath", startId |-> startId,
                  endId |-> endId, value |-> findShortestPath(startId, endId)]
    /\ UNCHANGED <<users, friendships, adjacencyList, store>>

FindCommunities ==
    /\ result' = [op |-> "findCommunities", value |-> findCommunities]
    /\ UNCHANGED <<users, friendships, adjacencyList, store>>

FindCommunitiesUnionFind ==
    /\ result' = [op |-> "findCommunitiesUnionFind",
                  value |-> findCommunitiesUnionFind]
    /\ UNCHANGED <<users, friendships, adjacencyList, store>>

FindMutualFriends(userId) ==
    /\ result' = [op |-> "findMutualFriends", userId |-> userId,
                  outcome |-> "returned",
                  value |-> findMutualFriends(userId)]
    /\ UNCHANGED <<users, friendships, adjacencyList, store>>

Next ==
    \/ \E startId, endId \in Ids : FindShortestPath(startId, endId)
    \/ FindCommunities
    \/ FindCommunitiesUnionFind
    \/ \E userId \in Ids : FindMutualFriends(userId)

Spec == Init /\ [][Next]_vars

\* ------------------------------------------- the store used by a caller
\* What localStorage holds when the store is constructed: nothing (the
\* first run) or the sample data saved by an earlier run.
StoredSample == {<<>>, <<SampleData>>}

\* The engine a caller builds from getData() right after the store loaded
\* what was stored.
EngineOnStore(stored) ==
    /\ users = UserIds(loadData(stored).value.users)
    /\ friendships = loadData(stored).value.friendships
    /\ adjacencyList = buildAdjacencyList(users, friendships)
    /\ result = [op |-> "constructor", value |-> [kind |-> "engine"]]

\* The store with no subscriber, and a caller holding an engine.
InitStore ==
    \E stored \in StoredSample :
        /\ store = StoreLoaded(stored, <<>>)
        /\ EngineOnStore(stored)

NextStore ==
    \/ ops < MaxOps /\ \E name \in Names, now \in Clock : AddUser(name, now)
    \/ ops < MaxOps /\ \E userId \in StoreIds : RemoveUser(userId)
    \/ ops < MaxOps /\ \E userId \in StoreIds, name \in Names :
                           UpdateUser(userId, name)
    \/ ops < MaxOps /\ \E sourceId, targetId \in StoreIds :
                           AddFriendship(sourceId, targetId)
    \/ ops < MaxOps /\ \E sourceId, targetId \in StoreIds :
                           RemoveFriendship(sourceId, targetId)
    \/ ops < MaxOps /\ Reset
    \/ Construct

SpecStore == InitStore /\ [][NextStore]_vars

\* A caller that only adds and removes users, each addUser reading a clock
\* that never runs backwards.
NextUsers ==
    \/ ops < MaxOps /\ \E name \in Names, now \in Clock : AddUser(name, now)
    \/ ops < MaxOps /\ \E userId \in StoreIds : RemoveUser(userId)

SpecUsers == InitStore /\ [][NextUsers]_vars

\* ------------------------------------------------------------- the page
\* (SocialNetworkAnalyzer)  The page subscribes its loadData to the store
\* and builds its engine from the arrays loadData got; handleAddFriendship
\* and handleRemoveFriendship call the store, the queries go to the engine.
\* The page starts on the sample data of a first run.  The forms of
\* UserManagement and PathFinder submit two different users only.
InitPage ==
    /\ store = StoreLoaded(<<>>, <<"loadData">>)
    /\ EngineOnStore(<<>>)

NextPage ==
    \/ ops < MaxEdits /\ \E sourceId, targetId \in SampleIds :
           sourceId # targetId /\ AddFriendship(sourceId, targetId)
    \/ ops < MaxEdits /\ \E sourceId, targetId \in SampleIds :
           sourceId # targetId /\ RemoveFriendship(sourceId, targetId)
    \/ \E startId, endId \in SampleIds :
           startId # endId /\ FindShortestPath(startId, endId)
    \/ FindCommunities
    \/ FindCommunitiesUnionFind
    \/ \E userId \in SampleIds : FindMutualFriends(userId)

SpecPage == InitPage /\ [][NextPage]_vars

\* ------------------------------------------- the page on any stored graph
\* What an earlier run may have stored: a user list with a friendship list
\* that keeps the edge invariant.
StoredGraph(us, fs) ==
    <<[users |-> [i \in DOMAIN us |-> [id |-> us[i], name |-> "User"]],
       friendships |-> fs]>>

InitGrow ==
    \E us \in UserLists :
        \E fs \in {l \in FriendshipLists(us) : EdgeInvariant(us, l)} :
            /\ store = StoreLoaded(StoredGraph(us, fs), <<"loadData">>)
            /\ EngineOnStore(StoredGraph(us, fs))

\* handleAddFriendship on the page, while the list has room.
NextGrow ==
    /\ ops < MaxEdits
    /\ Len(data.friendships) < MaxEdges
    /\ \E sourceId, targetId \in Ids : AddFriendship(sourceId, targetId)

SpecGrow == InitGrow /\ [][NextGrow]_vars

\* --------------------------------------------- engines on many communities
\* User lists long enough for more communities than the palette has
\* colours, with at most MaxPairs friendships that keep the edge invariant.
PaletteUserLists == {[i \in 1..n |-> i] : n \in 0..MaxUsers}

PaletteFriendshipLists(us) ==
    {fs \in SeqsUpTo([source : Range(us), target : Range(us)], MaxPairs) :
        EdgeInvariant(us, fs)}

InitPalette ==
    /\ users \in PaletteUserLists
    /\ friendships \in PaletteFriendshipLists(users)
    /\ adjacencyList = buildAdjacencyList(users, friendships)
    /\ result = [op |-> "constructor", value |-> [kind |-> "engine"]]
    /\ store = NoStore

NextPalette ==
    \/ FindCommunities
    \/ FindCommunitiesUnionFind

SpecPalette == InitPalette /\ [][NextPalette]_vars

\* ------------------------------------------------- the graph of a snapshot
\* The snapshot keeps the edge invariant.
ValidGraph == EdgeInvariant(users, friendships)

\* a and b are the two ends of a friendship.
Adjacent(a, b) ==
    \E i \in DOMAIN friendships :
        SamePair(friendships[i], [source |-> a, target |-> b])

\* The nodes joined to a by a friendship.
Friends(a) == {b \in Nodes : Adjacent(a, b)}

\* The nodes that a walk of at most k friendships reaches from a.
RECURSIVE Within(_, _)
Within(a, k) ==
    IF k = 0
    THEN {a}
    ELSE LET near == Within(a, k - 1)
         IN  near \cup {b \in Nodes : \E c \in near : Adjacent(c, b)}

Reachable(a, b) == b \in Within(a, Cardinality(Nodes))

\* The fewest friendships on a walk from a to b, for b reachable from a.
Distance(a, b) ==
    CHOOSE k \in 0..Cardinality(Nodes) :
        /\ b \in Within(a, k)
        /\ \A j \in 0..(k - 1) : b \notin Within(a, j)

\* The last call was findShortestPath on two users of a valid graph.
PathQueried ==
    /\ result.op = "findShortestPath"
    /\ ValidGraph
    /\ result.startId \in Nodes
    /\ result.endId \in Nodes

\* The last call was one of the two community methods.
CommunitiesQueried ==
    result.op \in {"findCommunities", "findCommunitiesUnionFind"}

\* The last call was findMutualFriends on a user of a valid graph.
SuggestionsQueried ==
    /\ result.op = "findMutualFriends"
    /\ ValidGraph
    /\ result.userId \in Nodes

C3_NotFoundIffUnreachable ==
    (PathQueried /\ result.startId # result.endId)
    => /\ result.value.kind \in {"path", "null"}
       /\ result.value = NotFound
              <=> ~Reachable(result.startId, result.endId)

\* C3 witness: null was returned for a start that has a friend.
C3_Witness ==
    /\ PathQueried
    /\ result.startId # result.endId
    /\ Friends(result.startId) # {}
    /\ result.value = NotFound

\* C4 (as claimed): when start and end are not both users, the query
\* fails with UnknownNode; it returns neither a path nor null.
C4_UnknownNodeIsRejected ==
    (/\ result.op = "findShortestPath"
     /\ ~(result.startId \in Nodes /\ result.endId \in Nodes))
    => result.value.kind = "UnknownNode"

\* C5: for every user a, whatever the friendships, findShortestPath(a, a)
\* is exactly { path: [a], distance: 0 }.
C5_IdentityPath ==
    (/\ result.op = "findShortestPath"
     /\ result.startId = result.endId
     /\ result.startId \in Nodes)
    => result.value =
           [kind |-> "path", path |-> <<result.startId>>, distance |-> 0]

\* C5 witness: the identity query was made on a user that has a friend.
C5_Witness ==
    /\ result.op = "findShortestPath"
    /\ result.startId = result.endId
    /\ result.startId \in Nodes
    /\ Friends(result.startId) \ {result.startId} # {}
    /\ result.value.distance = 0

\* The ids of community c, and how often id occurs in a list of communities.
Members(c) == Range(c.users)
Occurrences(communities, id) ==
    Cardinality({<<c, i>> \in (DOMAIN communities) \X (1..(NumIds + 1)) :
                    /\ i \in DOMAIN communities[c].users
                    /\ communities[c].users[i] = id})

\* C6 (as claimed): for any input graph, the communities of either
\* method partition the node set: no community is empty, every user
\* occurs exactly once in all of them, and no other id occurs.
C6_CommunitiesPartitionNodes ==
    CommunitiesQueried
    => /\ \A c \in DOMAIN result.value : result.value[c].users # <<>>
       /\ \A id \in Nodes : Occurrences(result.value, id) = 1
       /\ \A c \in DOMAIN result.value : Members(result.value[c]) \subseteq Nodes

\* C6, on snapshots that keep the edge invariant: there the communities
\* of either method do partition the node set.
C6_PartitionOnValidGraphs == ValidGraph => C6_CommunitiesPartitionNodes

\* Two ids are in one community of the list.
Together(communities, a, b) ==
    \E c \in DOMAIN communities :
        a \in Members(communities[c]) /\ b \in Members(communities[c])

\* C7: on a valid graph, either community method puts two users in one
\* community exactly when a path of friendships joins them, so the two
\* methods induce the same relation, that of connectivity.
C7_CommunitiesAreConnectivity ==
    (CommunitiesQueried /\ ValidGraph)
    => \A a, b \in Nodes :
           Together(result.value, a, b) <=> Reachable(a, b)

\* C7 witness: the union-find method returned two communities, one of
\* them of two users.
C7_Witness ==
    /\ result.op = "findCommunitiesUnionFind"
    /\ ValidGraph
    /\ Len(result.value) = 2
    /\ \E c \in DOMAIN result.value : Len(result.value[c].users) = 2

\* C8 (as claimed): construction fails with InvalidEdge on a friendship
\* with an endpoint that is no user or with source = target, and with
\* DuplicateEdge on a repeated unordered pair; no engine is produced.
C8_InvalidInputIsRejected ==
    (result.op = "constructor" /\ ~ValidGraph)
    => /\ result.value.kind \in {"InvalidEdge", "DuplicateEdge"}
       /\ (\E i \in DOMAIN friendships :
              SelfLoop(friendships[i]) \/ Dangling(users, friendships[i]))
          /\ ~Duplicated(friendships)
          => result.value.kind = "InvalidEdge"
       /\ (\A i \in DOMAIN friendships :
              ~SelfLoop(friendships[i]) /\ ~Dangling(users, friendships[i]))
          => result.value.kind = "DuplicateEdge"

\* C9: on a valid graph, findMutualFriends(userId) of a user never
\* suggests userId or a friend of userId, and every suggestion has a
\* non-empty mutualFriends list and mutualCount >= 1.
C9_SuggestionsExcludeSelfAndFriends ==
    SuggestionsQueried
    => \A i \in DOMAIN result.value :
           LET s == result.value[i] IN
           /\ s.userId # result.userId
           /\ ~Adjacent(result.userId, s.userId)
           /\ s.mutualFriends # <<>>
           /\ s.mutualCount >= 1

\* C9 witness: the query was made for a user one of whose friends shares
\* a friend with the user.
C9_Witness ==
    /\ SuggestionsQueried
    /\ \E c \in Friends(result.userId) :
          Friends(c) \cap Friends(result.userId) # {}

\* The users findMutualFriends(userId) has to suggest.
Candidates(userId) ==
    {c \in Nodes : /\ c # userId
                   /\ ~Adjacent(userId, c)
                   /\ Friends(userId) \cap Friends(c) # {}}

\* C10: on a valid graph, findMutualFriends(userId) of a user returns
\* one suggestion for each user c other than userId, not a friend of
\* userId, that shares a friend with userId, and no other; mutualFriends
\* is the set of shared friends and mutualCount its size.
C10_SuggestionsAreExact ==
    SuggestionsQueried
    => /\ {result.value[i].userId : i \in DOMAIN result.value}
              = Candidates(result.userId)
       /\ Len(result.value) = Cardinality(Candidates(result.userId))
       /\ \A i \in DOMAIN result.value :
              LET s == result.value[i]
                  shared == Friends(result.userId) \cap Friends(s.userId)
              IN  /\ Range(s.mutualFriends) = shared
                  /\ Len(s.mutualFriends) = Cardinality(shared)
                  /\ s.mutualCount = Cardinality(shared)

\* C10 witness: a suggestion was returned.
C10_Witness ==
    /\ SuggestionsQueried
    /\ \E i \in DOMAIN result.value : result.value[i].mutualCount >= 1

\* C12 (as claimed): findMutualFriends(userId) fails with UnknownNode when
\* userId is no user of the snapshot; it does not return a list.
C12_UnknownUserIsRejected ==
    (result.op = "findMutualFriends" /\ result.userId \notin Nodes)
    => result.outcome = "UnknownNode"

EdgeAdded ==
    /\ result.op = "addFriendship"
    /\ result.value
    /\ ValidGraph

C17_IdsAndColorsFollowPosition ==
    CommunitiesQueried =>
        /\ Len(colors) = 8
        /\ \A i \in DOMAIN result.value :
               /\ result.value[i].id = i - 1
               /\ result.value[i].color = colors[((i - 1) % 8) + 1]
        /\ \A i, j \in DOMAIN result.value :
               result.value[i].color = result.value[j].color
               => result.value[i].id % 8 = result.value[j].id % 8

\* C17 witness: nine communities are returned, and the ninth has the
\* colour of the first.
C17_Witness ==
    /\ CommunitiesQueried
    /\ Len(result.value) = 9
    /\ result.value[9].id = 8
    /\ result.value[9].color = result.value[1].color

\* The place of a user in the engine's user list.
Position(id) == CHOOSE i \in DOMAIN users : users[i] = id

\* C11: the list findMutualFriends returns is in non-increasing order of
\* mutualCount, and two suggestions with the same mutualCount are in the
\* order of their candidates in the user list.
C11_SortedAndStable ==
    result.op = "findMutualFriends" =>
        \A i, j \in DOMAIN result.value :
            i < j =>
                /\ result.value[i].mutualCount >= result.value[j].mutualCount
                /\ result.value[i].mutualCount = result.value[j].mutualCount
                       => Position(result.value[i].userId)
                              < Position(result.value[j].userId)

\* C11 witness: after a friendship was added through the page, at least
\* two suggestions are returned and the first two have the same count.
C11_Witness ==
    /\ result.op = "findMutualFriends"
    /\ ops > 0
    /\ Len(result.value) >= 2
    /\ result.value[1].mutualCount = result.value[2].mutualCount
    /\ Len(friendships) > Len(SampleFriendships)

\* The id of the sample user of a name.
IdOf(name) ==
    SampleUsers[CHOOSE i \in DOMAIN SampleUsers :
                    SampleUsers[i].name = name].id

\* The engine was built on the sample graph.
OnSample ==
    /\ users = UserIds(SampleUsers)
    /\ friendships = SampleFriendships

\* C15: on the sample graph, findShortestPath(Alice, Diana) is the path
\* Alice, Bob, Charlie, Diana of distance 3; findCommunities is one
\* community of all six users; findMutualFriends(Bob) is exactly Diana with
\* the shared friend Charlie and Eve with the shared friend Alice, each of
\* count 1.
C15_SampleGraphAnswers ==
    OnSample =>
        /\ (/\ result.op = "findShortestPath"
            /\ result.startId = IdOf("Alice")
            /\ result.endId = IdOf("Diana"))
           => result.value =
                  [kind |-> "path",
                   path |-> <<IdOf("Alice"), IdOf("Bob"),
                              IdOf("Charlie"), IdOf("Diana")>>,
                   distance |-> 3]
        /\ result.op = "findCommunities"
           => /\ Len(result.value) = 1
              /\ Len(result.value[1].users) = 6
              /\ Members(result.value[1]) = SampleIds
        /\ (result.op = "findMutualFriends" /\ result.userId = IdOf("Bob"))
           => /\ Len(result.value) = 2
              /\ Range(result.value) =
                     {[userId |-> IdOf("Diana"), mutualCount |-> 1,
                       mutualFriends |-> <<IdOf("Charlie")>>],
                      [userId |-> IdOf("Eve"), mutualCount |-> 1,
                       mutualFriends |-> <<IdOf("Alice")>>]}

\* C15 witness: findMutualFriends(Bob) has answered on the sample graph with
\* two suggestions.
C15_Witness ==
    /\ OnSample
    /\ result.op = "findMutualFriends"
    /\ result.userId = IdOf("Bob")
    /\ Len(result.value) = 2

\* The engine was built after removeFriendship(Alice, Eve) on the sample
\* graph: the friendship Alice-Eve is gone, the others are in place.
AfterRemoval ==
    /\ users = UserIds(SampleUsers)
    /\ friendships =
           <<[source |-> IdOf("Alice"), target |-> IdOf("Bob")],
             [source |-> IdOf("Bob"), target |-> IdOf("Charlie")],
             [source |-> IdOf("Charlie"), target |-> IdOf("Diana")],
             [source |-> IdOf("Eve"), target |-> IdOf("Frank")]>>

\* C16: after removeFriendship(Alice, Eve) on the sample graph, both
\* community methods of an engine on the new graph return two communities,
\* Alice, Bob, Charlie, Diana and Eve, Frank, and findShortestPath(Diana,
\* Frank) returns null.
C16_RemovalDisconnects ==
    AfterRemoval =>
        /\ CommunitiesQueried
           => /\ Len(result.value) = 2
              /\ {Members(result.value[i]) : i \in DOMAIN result.value} =
                     {{IdOf("Alice"), IdOf("Bob"),
                       IdOf("Charlie"), IdOf("Diana")},
                      {IdOf("Eve"), IdOf("Frank")}}
              /\ {Len(result.value[i].users) : i \in DOMAIN result.value}
                     = {4, 2}
        /\ (/\ result.op = "findShortestPath"
            /\ result.startId = IdOf("Diana")
            /\ result.endId = IdOf("Frank"))
           => result.value = NotFound

\* C16 witness: the friendship was removed through the store and the
\* union-find method has answered on the new graph.
C16_Witness ==
    /\ AfterRemoval
    /\ ops = 1
    /\ result.op = "findCommunitiesUnionFind"
    /\ Len(result.value) = 2

\* C18 (as claimed): after any calls of the store's methods from the sample
\* data, the stored friendships keep the edge invariant: no self-loop, no
\* pair twice, both ends of every friendship stored users.
C18_StoreKeepsEdgeInvariant ==
    EdgeInvariant(UserIds(data.users), data.friendships)

\* C19 (as claimed): after reset() the store holds exactly the sample data:
\* the six users under their names and the five friendships.
C19_ResetRestoresSample ==
    result.op = "reset" => data = SampleData

\* The last call was addUser, removeUser, addFriendship or removeFriendship
\* and changed the stored data.
Mutated ==
    \/ result.op = "addUser"
    \/ /\ result.op \in {"removeUser", "addFriendship", "removeFriendship"}
       /\ result.value

\* C20 (as claimed): the engine a caller built from getData() answers every
\* query after a store mutation as it did before it, and its two community
\* methods group the users alike.
C20_EngineKeepsItsSnapshot ==
    Mutated =>
        /\ Answers = before
        /\ {Members(findCommunities[i]) : i \in DOMAIN findCommunities} =
               {Members(findCommunitiesUnionFind[i]) :
                    i \in DOMAIN findCommunitiesUnionFind}

\* C21 (as claimed): after any addUser and removeUser calls from the sample
\* data, with the clock read by addUser never running backwards, no two
\* stored users have the same id.
C21_StoredIdsAreUnique ==
    \A i, j \in DOMAIN data.users :
        data.users[i].id = data.users[j].id => i = j

====
